---- MODULE Spec2Model ----
(***************************************************************************)
(* Model of analise_protocolos_dashboard.py: a Streamlit script that loads *)
(* two uploaded spreadsheets (carregar_dados_upload), cleans, joins and    *)
(* compares their status columns (processar_e_comparar) and renders the    *)
(* two outcome tables with their counts.                                   *)
(*                                                                         *)
(* Text is modelled as a sequence of one-character strings so that         *)
(* str.strip and str.upper are computed, not assumed.  A missing cell      *)
(* (pandas NaN) is the value NaN.  Cells are text or missing; column       *)
(* dtypes are those of pandas 1.x/2.x, where text columns are 'object'.    *)
(***************************************************************************)
EXTENDS Integers, Sequences, FiniteSets, TLC

VARIABLES arquivo_algar, arquivo_data, df_algar, df_data,
          df_divergente, df_igual, erros, info, metricas, pc,
          execucoes, anterior

vars == <<arquivo_algar, arquivo_data, df_algar, df_data,
          df_divergente, df_igual, erros, info, metricas, pc,
          execucoes, anterior>>

(* ---------------------------- bounds ----------------------------------- *)
\* Largest number of data rows in an uploaded sheet.
MaxRows == 2
\* Largest number of times processar_e_comparar is applied to the same frames.
MaxRuns == 2

(* ---------------------------- values ----------------------------------- *)
\* Python None; a frame or a file that is present is a record of another tipo.
None == [tipo |-> "None"]
\* pandas NaN (missing cell); never a sequence of characters.
NaN == <<"NaN">>

DataFrame(linhas) == [tipo |-> "DataFrame", linhas |-> linhas]

FECHADO == <<"F", "E", "C", "H", "A", "D", "O">>
INSTALADO == <<"I", "N", "S", "T", "A", "L", "A", "D", "O">>

(* ------------------------ Python str methods --------------------------- *)
\* Characters str.strip() removes.
Whitespace == {" ", "\t", "\n"}

\* The uppercase of each lowercase letter.
UpperCase ==
    "a" :> "A" @@ "b" :> "B" @@ "c" :> "C" @@ "d" :> "D" @@ "e" :> "E" @@
    "f" :> "F" @@ "g" :> "G" @@ "h" :> "H" @@ "i" :> "I" @@ "j" :> "J" @@
    "k" :> "K" @@ "l" :> "L" @@ "m" :> "M" @@ "n" :> "N" @@ "o" :> "O" @@
    "p" :> "P" @@ "q" :> "Q" @@ "r" :> "R" @@ "s" :> "S" @@ "t" :> "T" @@
    "u" :> "U" @@ "v" :> "V" @@ "w" :> "W" @@ "x" :> "X" @@ "y" :> "Y" @@
    "z" :> "Z"

\* str.upper() on one character: letters a-z change, the rest stays.
UpperChar(c) == IF c \in DOMAIN UpperCase THEN UpperCase[c] ELSE c

RECURSIVE lstrip(_)
lstrip(s) ==
    IF s = <<>> THEN s
    ELSE IF Head(s) \in Whitespace THEN lstrip(Tail(s)) ELSE s

RECURSIVE rstrip(_)
rstrip(s) ==
    IF s = <<>> THEN s
    ELSE IF s[Len(s)] \in Whitespace THEN rstrip(SubSeq(s, 1, Len(s) - 1)) ELSE s

\* str.strip()
strip(s) == rstrip(lstrip(s))

\* str.upper()
RECURSIVE upper(_)
upper(s) ==
    IF s = <<>> THEN s
    ELSE <<UpperChar(Head(s))>> \o upper(Tail(s))

(* ------------------------ pandas Series methods ------------------------ *)
\* Series.str.strip(): missing values stay missing.
str_strip(v) == IF v = NaN THEN NaN ELSE strip(v)

\* Variant of str_upper: the call to .str.upper() is left out.
str_upper_ausente(v) == v

\* Series.str.upper(): missing values stay missing.
str_upper(v) == IF v = NaN THEN NaN ELSE upper(v)

\* Series.astype(str): a missing value becomes the text "nan".
astype_str(v) == IF v = NaN THEN <<"n", "a", "n">> ELSE v

\* Variant of replace: a cell that starts with a is replaced too.
replace_prefixo(v, a, b) ==
    IF Len(v) >= Len(a) /\ SubSeq(v, 1, Len(a)) = a THEN b ELSE v

\* Series.replace(a, b): replaces the cells whose whole value is a.
replace(v, a, b) == IF v = a THEN b ELSE v

\* Variant of dropna: an empty text counts as missing too.
RECURSIVE dropna_vazio(_, _)
dropna_vazio(linhas, cols) ==
    IF linhas = <<>> THEN <<>>
    ELSE (IF \E c \in cols : Head(linhas)[c] \in {NaN, <<>>} THEN <<>> ELSE <<Head(linhas)>>)
         \o dropna_vazio(Tail(linhas), cols)

\* DataFrame.dropna(subset=cols): drops the rows missing a value in cols.
RECURSIVE dropna(_, _)
dropna(linhas, cols) ==
    IF linhas = <<>> THEN <<>>
    ELSE (IF \E c \in cols : Head(linhas)[c] = NaN THEN <<>> ELSE <<Head(linhas)>>)
         \o dropna(Tail(linhas), cols)

\* df[col].dtype == 'object': the column holds text.
dtype_object(linhas, col) ==
    col = "PROTOCOLO" \/ \E i \in DOMAIN linhas : linhas[i][col] # NaN


(* ---------------------------- cleaning --------------------------------- *)
\* Line 68: df['PROTOCOLO'] = df['PROTOCOLO'].astype(str).str.strip()
RECURSIVE protocolo_texto(_)
protocolo_texto(linhas) ==
    IF linhas = <<>> THEN <<>>
    ELSE <<[Head(linhas) EXCEPT !.PROTOCOLO = str_strip(astype_str(@))]>>
         \o protocolo_texto(Tail(linhas))

\* Line 71: df[col] = df[col].str.strip().str.upper()
RECURSIVE padronizar(_, _)
padronizar(linhas, col) ==
    IF linhas = <<>> THEN <<>>
    ELSE <<[Head(linhas) EXCEPT ![col] = str_upper(str_strip(@))]>>
         \o padronizar(Tail(linhas), col)

\* Lines 69-71: the loop over the columns, which touches the text columns.
RECURSIVE padronizar_colunas(_, _)
padronizar_colunas(linhas, cols) ==
    IF cols = {} THEN linhas
    ELSE LET col == CHOOSE c \in cols : TRUE
         IN padronizar_colunas(
              IF dtype_object(linhas, col) THEN padronizar(linhas, col) ELSE linhas,
              cols \ {col})

\* df.columns
columns(linhas) == IF linhas = <<>> THEN {} ELSE DOMAIN Head(linhas)

\* Lines 67-71, for one frame.
limpar(linhas) ==
    LET l1 == protocolo_texto(linhas)
    IN padronizar_colunas(l1, columns(l1))

(* ------------------------------ merge ---------------------------------- *)
\* Variant of merge_linha: the key is not compared (a cross join).
RECURSIVE merge_linha_cruzada(_, _)
merge_linha_cruzada(e, direita) ==
    IF direita = <<>> THEN <<>>
    ELSE <<[PROTOCOLO |-> e.PROTOCOLO,
            STATUS_ALGAR |-> e.STATUS_ALGAR,
            STATUS_AG |-> Head(direita).STATUS_AG]>>
         \o merge_linha_cruzada(e, Tail(direita))

\* Variant of merge_linha: only the first right row with the key is joined.
merge_linha_primeira(e, direita) ==
    LET js == {j \in DOMAIN direita : direita[j].PROTOCOLO = e.PROTOCOLO}
    IN IF js = {} THEN <<>>
       ELSE LET j == CHOOSE x \in js : \A y \in js : x <= y
            IN <<[PROTOCOLO |-> e.PROTOCOLO,
                  STATUS_ALGAR |-> e.STATUS_ALGAR,
                  STATUS_AG |-> direita[j].STATUS_AG]>>

\* The rows pd.merge produces for one left row: one per right row with the
\* same key, in the right frame's order.
RECURSIVE merge_linha(_, _)
merge_linha(e, direita) ==
    IF direita = <<>> THEN <<>>
    ELSE (IF Head(direita).PROTOCOLO = e.PROTOCOLO
          THEN <<[PROTOCOLO |-> e.PROTOCOLO,
                  STATUS_ALGAR |-> e.STATUS_ALGAR,
                  STATUS_AG |-> Head(direita).STATUS_AG]>>
          ELSE <<>>)
         \o merge_linha(e, Tail(direita))

\* pd.merge(left, right, on='PROTOCOLO', how='inner'), in the left frame's order.
RECURSIVE merge(_, _)
merge(esquerda, direita) ==
    IF esquerda = <<>> THEN <<>>
    ELSE merge_linha(Head(esquerda), direita) \o merge(Tail(esquerda), direita)

(* ---------------------------- comparison ------------------------------- *)
\* Line 78: STATUS_ALGAR_NORM of a merged row.
STATUS_ALGAR_NORM(l) == replace(l.STATUS_ALGAR, FECHADO, INSTALADO)

\* Line 79: STATUS_AG_NORM of a merged row.
STATUS_AG_NORM(l) == replace(l.STATUS_AG, FECHADO, INSTALADO)

\* Line 81: the mask of the divergent rows.
divergencias_mask(l) == STATUS_ALGAR_NORM(l) # STATUS_AG_NORM(l)

\* Variant of colunas: the rewritten statuses are reported.
colunas_norm(l) ==
    [PROTOCOLO |-> l.PROTOCOLO,
     STATUS_ALGAR |-> STATUS_ALGAR_NORM(l),
     STATUS_AG |-> STATUS_AG_NORM(l)]

\* Lines 82-83: the reported columns of a merged row.
colunas(l) ==
    [PROTOCOLO |-> l.PROTOCOLO, STATUS_ALGAR |-> l.STATUS_ALGAR, STATUS_AG |-> l.STATUS_AG]

RECURSIVE selecionar(_, _)
selecionar(linhas, divergente) ==
    IF linhas = <<>> THEN <<>>
    ELSE (IF divergencias_mask(Head(linhas)) = divergente
          THEN <<colunas(Head(linhas))>> ELSE <<>>)
         \o selecionar(Tail(linhas), divergente)

\* processar_e_comparar: returns the two outcome frames, and the two input
\* frames as the in-place dropna and cleaning leave them.
processar_e_comparar(algar, data) ==
    LET a == limpar(dropna(algar.linhas, {"PROTOCOLO"}))
        d == limpar(dropna(data.linhas, {"PROTOCOLO"}))
        df_merged == dropna(merge(a, d), {"STATUS_ALGAR", "STATUS_AG"})
    IN [df_algar |-> DataFrame(a),
        df_data |-> DataFrame(d),
        df_divergente |-> DataFrame(selecionar(df_merged, TRUE)),
        df_igual |-> DataFrame(selecionar(df_merged, FALSE))]

(* ------------------------------ loading -------------------------------- *)
\* Cell texts the pandas readers turn into a missing value (among the
\* default na_values).
NaValues == {<<>>, <<"N", "A">>}

\* A cell as read_csv / read_excel deliver it.
ler_celula(c) == IF c \in NaValues THEN NaN ELSE c

\* An uploaded file: erro is the text of the exception its reader raises
\* ("" when it parses), linhas its rows, each a function from the column
\* positions the reader uses to the cell text.
Arquivo(erro, linhas) == [tipo |-> "arquivo", erro |-> erro, linhas |-> linhas]

\* Lines 51-52: the two st.error calls.
mensagens_erro(e) ==
    <<[texto |-> "Ocorreu um erro ao ler os arquivos", detalhe |-> ""],
      [texto |-> "Detalhe do erro", detalhe |-> e]>>

\* Variant of carregar_dados_upload: the carrier frame is returned although
\* the internal sheet failed to parse.
carregar_parcial(arquivo_csv, arquivo_xlsx) ==
    IF arquivo_csv.erro # ""
    THEN [df_algar |-> None, df_data |-> None, erros |-> mensagens_erro(arquivo_csv.erro)]
    ELSE [df_algar |-> DataFrame([i \in 1..Len(arquivo_csv.linhas) |->
                          [PROTOCOLO |-> ler_celula(arquivo_csv.linhas[i][2]),
                           STATUS_ALGAR |-> ler_celula(arquivo_csv.linhas[i][19])]]),
          df_data |-> IF arquivo_xlsx.erro # "" THEN None
                      ELSE DataFrame([i \in 1..Len(arquivo_xlsx.linhas) |->
                          [PROTOCOLO |-> ler_celula(arquivo_xlsx.linhas[i][3]),
                           STATUS_AG |-> ler_celula(arquivo_xlsx.linhas[i][0])]]),
          erros |-> IF arquivo_xlsx.erro # "" THEN mensagens_erro(arquivo_xlsx.erro)
                    ELSE <<>>]

\* carregar_dados_upload: the CSV is read first (columns 2 and 19), then the
\* Excel sheet (columns 0 and 3, reordered to 3, 0); any exception yields
\* (None, None) and the two error messages.
carregar_dados_upload(arquivo_csv, arquivo_xlsx) ==
    IF arquivo_csv.erro # ""
    THEN [df_algar |-> None, df_data |-> None, erros |-> mensagens_erro(arquivo_csv.erro)]
    ELSE IF arquivo_xlsx.erro # ""
    THEN [df_algar |-> None, df_data |-> None, erros |-> mensagens_erro(arquivo_xlsx.erro)]
    ELSE [df_algar |-> DataFrame([i \in 1..Len(arquivo_csv.linhas) |->
                          [PROTOCOLO |-> ler_celula(arquivo_csv.linhas[i][2]),
                           STATUS_ALGAR |-> ler_celula(arquivo_csv.linhas[i][19])]]),
          df_data |-> DataFrame([i \in 1..Len(arquivo_xlsx.linhas) |->
                          [PROTOCOLO |-> ler_celula(arquivo_xlsx.linhas[i][3]),
                           STATUS_AG |-> ler_celula(arquivo_xlsx.linhas[i][0])]]),
          erros |-> <<>>]

(* ------------------------------ inputs --------------------------------- *)
SeqAte(S, n) == UNION {[1..k -> S] : k \in 0..n}

\* Rows of the carrier sheet: column 2 is the protocol, column 19 the status.
LinhaCSV(protocolo, status) == (2 :> protocolo @@ 19 :> status)

\* Rows of the internal sheet: column 3 is the protocol, column 0 the status.
LinhaXLSX(protocolo, status) == (0 :> status @@ 3 :> protocolo)

PENDENTE == <<"P", "E", "N", "D", "E", "N", "T", "E">>

\* Carrier rows: padded and lowercase protocols and statuses, a status that
\* only contains FECHADO, a missing protocol, a blank protocol, a blank status.
LinhasCSV ==
    { LinhaCSV(<<" ", "a", " ">>, FECHADO),
      LinhaCSV(<<"A">>, <<"i", "n", "s", "t", "a", "l", "a", "d", "o", " ">>),
      LinhaCSV(<<"A">>, <<"F", "E", "C", "H", "A", "D", "O", "S">>),
      LinhaCSV(<<"B">>, <<"p", "e", "n", "d", "e", "n", "t", "e">>),
      LinhaCSV(<<>>, FECHADO),
      LinhaCSV(<<" ">>, PENDENTE),
      LinhaCSV(<<"A">>, <<" ">>) }

\* Internal rows: the same protocols in other spellings, a blank protocol,
\* a missing status.
LinhasXLSX ==
    { LinhaXLSX(<<"A">>, INSTALADO),
      LinhaXLSX(<<"a", " ">>, <<"f", "e", "c", "h", "a", "d", "o">>),
      LinhaXLSX(<<"A">>, PENDENTE),
      LinhaXLSX(<<"b">>, PENDENTE),
      LinhaXLSX(<<" ", " ">>, PENDENTE),
      LinhaXLSX(<<"A">>, <<>>) }

\* Exception texts of a file the reader cannot parse.
ErrosLeitura == {"usecols fora dos limites"}

ArquivosCSV ==
    {Arquivo(e, <<>>) : e \in ErrosLeitura}
    \cup {Arquivo("", l) : l \in SeqAte(LinhasCSV, MaxRows)}

ArquivosXLSX ==
    {Arquivo(e, <<>>) : e \in ErrosLeitura}
    \cup {Arquivo("", l) : l \in SeqAte(LinhasXLSX, MaxRows)}

(* --------------------------- state machine ----------------------------- *)
\* What a script run starts from: no frame, no output on the page.
NovaExecucao ==
    /\ df_algar' = None
    /\ df_data' = None
    /\ df_divergente' = None
    /\ df_igual' = None
    /\ erros' = <<>>
    /\ info' = FALSE
    /\ metricas' = None
    /\ execucoes' = 0
    /\ anterior' = None
    /\ pc' = "inicio"

Init ==
    /\ arquivo_algar = None
    /\ arquivo_data = None
    /\ df_algar = None
    /\ df_data = None
    /\ df_divergente = None
    /\ df_igual = None
    /\ erros = <<>>
    /\ info = FALSE
    /\ metricas = None
    /\ execucoes = 0
    /\ anterior = None
    /\ pc = "inicio"

\* Lines 94-97: the user puts a carrier file in the empty uploader; Streamlit
\* reruns the script.
UploadAlgar ==
    /\ pc = "widgets"
    /\ arquivo_algar = None
    /\ \E f \in ArquivosCSV : arquivo_algar' = f
    /\ UNCHANGED arquivo_data
    /\ NovaExecucao

\* Lines 98-101: the user puts an internal file in the empty uploader;
\* Streamlit reruns the script.
UploadData ==
    /\ pc = "widgets"
    /\ arquivo_data = None
    /\ \E f \in ArquivosXLSX : arquivo_data' = f
    /\ UNCHANGED arquivo_algar
    /\ NovaExecucao

\* Lines 94-97: the user removes the carrier file; the uploader returns None.
RemoverAlgar ==
    /\ pc = "widgets"
    /\ arquivo_algar # None
    /\ arquivo_algar' = None
    /\ UNCHANGED arquivo_data
    /\ NovaExecucao

\* Lines 98-101: the user removes the internal file; the uploader returns None.
RemoverData ==
    /\ pc = "widgets"
    /\ arquivo_data # None
    /\ arquivo_data' = None
    /\ UNCHANGED arquivo_algar
    /\ NovaExecucao

\* Lines 103, 141-142: a file is missing, the script only shows the hint.
SemArquivos ==
    /\ pc = "inicio"
    /\ ~(arquivo_algar # None /\ arquivo_data # None)
    /\ info' = TRUE
    /\ pc' = "widgets"
    /\ UNCHANGED <<arquivo_algar, arquivo_data, df_algar, df_data, df_divergente,
                   df_igual, erros, metricas, execucoes, anterior>>

\* Lines 103-104: both files are there, the frames are loaded.
Carregar ==
    /\ pc = "inicio"
    /\ arquivo_algar # None /\ arquivo_data # None
    /\ LET r == carregar_dados_upload(arquivo_algar, arquivo_data)
       IN /\ df_algar' = r.df_algar
          /\ df_data' = r.df_data
          /\ erros' = r.erros
    /\ pc' = "carregado"
    /\ UNCHANGED <<arquivo_algar, arquivo_data, df_divergente, df_igual, info,
                   metricas, execucoes, anterior>>

\* Line 106, false branch: the load failed, the run ends with the errors shown.
FalhaCarga ==
    /\ pc = "carregado"
    /\ ~(df_algar # None /\ df_data # None)
    /\ pc' = "widgets"
    /\ UNCHANGED <<arquivo_algar, arquivo_data, df_algar, df_data, df_divergente,
                   df_igual, erros, info, metricas, execucoes, anterior>>

\* Lines 106-107: the comparison, which also cleans the two frames in place.
Processar ==
    /\ pc = "carregado"
    /\ df_algar # None /\ df_data # None
    /\ LET r == processar_e_comparar(df_algar, df_data)
       IN /\ df_algar' = r.df_algar
          /\ df_data' = r.df_data
          /\ df_divergente' = r.df_divergente
          /\ df_igual' = r.df_igual
    /\ execucoes' = 1
    /\ pc' = "processado"
    /\ UNCHANGED <<arquivo_algar, arquivo_data, erros, info, metricas, anterior>>

\* Lines 110-140: the two metrics and the two tables.
Exibir ==
    /\ pc = "processado"
    /\ metricas' = [compativel |-> Len(df_igual.linhas),
                    divergente |-> Len(df_divergente.linhas)]
    /\ pc' = "widgets"
    /\ UNCHANGED <<arquivo_algar, arquivo_data, df_algar, df_data, df_divergente,
                   df_igual, erros, info, execucoes, anterior>>

\* processar_e_comparar applied again to the frames the previous call left.
ProcessarNovamente ==
    /\ pc = "processado"
    /\ execucoes < MaxRuns
    /\ LET r == processar_e_comparar(df_algar, df_data)
       IN /\ df_algar' = r.df_algar
          /\ df_data' = r.df_data
          /\ df_divergente' = r.df_divergente
          /\ df_igual' = r.df_igual
    /\ anterior' = [df_divergente |-> df_divergente, df_igual |-> df_igual]
    /\ execucoes' = execucoes + 1
    /\ UNCHANGED <<arquivo_algar, arquivo_data, erros, info, metricas, pc>>

Next ==
    \/ UploadAlgar
    \/ UploadData
    \/ RemoverAlgar
    \/ RemoverData
    \/ SemArquivos
    \/ Carregar
    \/ FalhaCarga
    \/ Processar
    \/ Exibir

Spec == Init /\ [][Next]_vars

NextRepetido == Next \/ ProcessarNovamente

\* The script, with the comparison applied repeatedly to the same frames.
SpecRepetido == Init /\ [][NextRepetido]_vars


(* ------------------- vocabulary of the properties ---------------------- *)
\* The comparison has run in the current script run.
Comparado == df_igual # None /\ df_divergente # None

\* The RecordSets the comparison received: the frames as loaded from the files.
EntradaAlgar == carregar_dados_upload(arquivo_algar, arquivo_data).df_algar.linhas
EntradaData == carregar_dados_upload(arquivo_algar, arquivo_data).df_data.linhas

\* A text value trimmed and uppercased.
Normalizado(v) == upper(strip(v))

\* A value that is present and not empty once trimmed.
NaoVazio(v) == v # NaN /\ strip(v) # <<>>

\* The rows of a RecordSet that have an identifier, each with its position,
\* its normalized identifier and its status as loaded.
ComProtocolo(linhas, status_col) ==
    {[n |-> i,
      chave |-> Normalizado(linhas[i].PROTOCOLO),
      status |-> linhas[i][status_col]] :
        i \in {n \in DOMAIN linhas : linhas[n].PROTOCOLO # NaN}}

\* The JoinedRecords: the pairs of a carrier row and an internal row with the
\* same normalized identifier (the inner join on the cleaned identifier).
Pares ==
    LET ca == ComProtocolo(EntradaAlgar, "STATUS_ALGAR")
        cd == ComProtocolo(EntradaData, "STATUS_AG")
    IN {p \in ca \X cd : p[1].chave = p[2].chave}

\* The record a JoinedRecord with both statuses is to be reported as.
Relato(p) ==
    [PROTOCOLO |-> p[1].chave,
     STATUS_ALGAR |-> Normalizado(p[1].status),
     STATUS_AG |-> Normalizado(p[2].status)]

\* The reports of the JoinedRecords that have a status on both sides.
Relatos == {Relato(p) : p \in {q \in Pares : q[1].status # NaN /\ q[2].status # NaN}}

\* Two statuses that agree: the same text, or FECHADO and INSTALADO.
Equivalentes(x, y) == x = y \/ {x, y} \subseteq {FECHADO, INSTALADO}

Linhas(df) == {df.linhas[i] : i \in DOMAIN df.linhas}

Saida == Linhas(df_divergente) \cup Linhas(df_igual)

FECHADOS == <<"F", "E", "C", "H", "A", "D", "O", "S">>

(* ------------------------------- C1 ------------------------------------ *)
\* C1: the comparison splits the inner join into two disjoint sets, divergent
\* and equal, whose sizes add up to the number of JoinedRecords with a
\* non-empty carrier status and a non-empty internal status.
C1_Particao ==
    Comparado =>
      /\ Linhas(df_divergente) \cap Linhas(df_igual) = {}
      /\ Len(df_divergente.linhas) + Len(df_igual.linhas)
           = Cardinality({p \in Pares : NaoVazio(p[1].status) /\ NaoVazio(p[2].status)})

(* ------------------------------- C2 ------------------------------------ *)
\* C2: a JoinedRecord is EQUAL exactly when its trimmed, uppercased statuses
\* are the same after FECHADO is rewritten to INSTALADO on each side, and
\* DIVERGENT otherwise; only a status that is exactly FECHADO is rewritten.
C2_Classificacao ==
    Comparado =>
      /\ \A r \in Linhas(df_igual) : Equivalentes(r.STATUS_ALGAR, r.STATUS_AG)
      /\ \A r \in Linhas(df_divergente) : ~Equivalentes(r.STATUS_ALGAR, r.STATUS_AG)
      /\ \A r \in Relatos :
           IF Equivalentes(r.STATUS_ALGAR, r.STATUS_AG)
           THEN r \in Linhas(df_igual)
           ELSE r \in Linhas(df_divergente)

\* FECHADO/INSTALADO is reported equal while FECHADOS/INSTALADO is divergent.
C2_Witness ==
    /\ Comparado
    /\ \E r \in Linhas(df_igual) : r.STATUS_ALGAR = FECHADO /\ r.STATUS_AG = INSTALADO
    /\ \E r \in Linhas(df_divergente) : r.STATUS_ALGAR = FECHADOS /\ r.STATUS_AG = INSTALADO

(* ------------------------------- C3 ------------------------------------ *)
\* C3: every reported record carries the statuses of its two source rows,
\* trimmed and uppercased but not rewritten by the synonym rule; a
\* FECHADO/INSTALADO pair is reported equal as FECHADO/INSTALADO.
C3_StatusOriginais ==
    Comparado =>
      LET relatos == Relatos
      IN /\ Saida \subseteq relatos
         /\ \A r \in Saida : DOMAIN r = {"PROTOCOLO", "STATUS_ALGAR", "STATUS_AG"}
         /\ \A r \in relatos :
              (r.STATUS_ALGAR = FECHADO /\ r.STATUS_AG = INSTALADO)
                => r \in Linhas(df_igual)

\* A carrier row spelled FECHADO and an internal row spelled fechado are
\* reported equal, both as FECHADO, next to a FECHADO/INSTALADO record.
C3_Witness ==
    /\ Comparado
    /\ \E r \in Linhas(df_igual) : r.STATUS_ALGAR = FECHADO /\ r.STATUS_AG = INSTALADO
    /\ \E r \in Linhas(df_igual) : r.STATUS_ALGAR = FECHADO /\ r.STATUS_AG = FECHADO

(* ------------------------------- C4 ------------------------------------ *)
\* C4: no record of the divergent set or of the equal set has a carrier
\* status or an internal status that is missing or empty after trimming.
C4_SemStatusVazio ==
    Comparado =>
      \A r \in Saida : NaoVazio(r.STATUS_ALGAR) /\ NaoVazio(r.STATUS_AG)

(* ------------------------------- C5 ------------------------------------ *)
\* C5: rows with a missing or blank identifier are dropped before the join:
\* every reported record has a present, non-empty identifier.
C5_SemProtocoloVazio ==
    Comparado =>
      \A r \in Saida : NaoVazio(r.PROTOCOLO)

(* ------------------------------- C6 ------------------------------------ *)
\* C6: a carrier row and an internal row whose identifiers differ only by
\* surrounding whitespace or letter case are joined, and the record is
\* reported under the normalized identifier.
C6_ProtocoloNormalizado ==
    Comparado =>
      /\ Relatos \subseteq Saida
      /\ \A r \in Saida : Normalizado(r.PROTOCOLO) = r.PROTOCOLO

\* The identifiers " a " and "A" were joined and reported as "A".
C6_Witness ==
    /\ Comparado
    /\ \E i \in DOMAIN EntradaAlgar, j \in DOMAIN EntradaData :
         /\ EntradaAlgar[i].PROTOCOLO = <<" ", "a", " ">>
         /\ EntradaData[j].PROTOCOLO = <<"A">>
         /\ EntradaAlgar[i].STATUS_ALGAR = FECHADO
         /\ EntradaData[j].STATUS_AG = INSTALADO
    /\ [PROTOCOLO |-> <<"A">>, STATUS_ALGAR |-> FECHADO, STATUS_AG |-> INSTALADO] \in Saida

(* ------------------------------- C7 ------------------------------------ *)
\* C7: every identifier of either outcome set is the normalized identifier
\* of at least one carrier row and of at least one internal row.
C7_SomenteComuns ==
    Comparado =>
      LET chaves_algar == {l.chave : l \in ComProtocolo(EntradaAlgar, "STATUS_ALGAR")}
          chaves_data == {l.chave : l \in ComProtocolo(EntradaData, "STATUS_AG")}
      IN \A r \in Saida : r.PROTOCOLO \in chaves_algar /\ r.PROTOCOLO \in chaves_data

\* Protocol B is only in the carrier sheet and is not reported, while
\* another protocol is.
C7_Witness ==
    /\ Comparado
    /\ Saida # {}
    /\ \E i \in DOMAIN EntradaAlgar : EntradaAlgar[i].PROTOCOLO = <<"B">>
    /\ \A j \in DOMAIN EntradaData : EntradaData[j].PROTOCOLO # <<"b">>
    /\ \A r \in Saida : r.PROTOCOLO # <<"B">>

(* ------------------------------- C8 ------------------------------------ *)
\* C8: a failed load returns no frame at all (both absent together) and
\* reports the explanatory message and the parser's error; the comparison
\* runs only when both files were uploaded and both frames were loaded.
C8_CargaTudoOuNada ==
    /\ (df_algar = None) <=> (df_data = None)
    /\ (/\ pc # "inicio"
        /\ arquivo_algar # None /\ arquivo_data # None
        /\ (arquivo_algar.erro # "" \/ arquivo_data.erro # ""))
         => /\ df_algar = None /\ df_data = None
            /\ Len(erros) = 2
            /\ erros[1].texto # "" /\ erros[2].detalhe # ""
            /\ erros[2].detalhe \in {arquivo_algar.erro, arquivo_data.erro}
            /\ ~Comparado /\ execucoes = 0 /\ metricas = None
    /\ (Comparado \/ execucoes > 0 \/ metricas # None)
         => /\ arquivo_algar # None /\ arquivo_data # None
            /\ arquivo_algar.erro = "" /\ arquivo_data.erro = ""
            /\ df_algar # None /\ df_data # None
            /\ erros = <<>>

\* The carrier sheet parsed, with rows, but the internal sheet did not: the
\* run ended with the two errors and without a comparison.
C8_Witness ==
    /\ pc = "widgets"
    /\ arquivo_algar # None /\ arquivo_data # None
    /\ arquivo_algar.erro = "" /\ arquivo_algar.linhas # <<>>
    /\ arquivo_data.erro # ""
    /\ Len(erros) = 2
    /\ df_algar = None /\ ~Comparado

(* ------------------------------- C9 ------------------------------------ *)
\* C9: applying the comparison again to the frames the previous application
\* left (rows dropped, trimmed, uppercased) yields the same divergent and
\* equal sets and the same counts.
C9_Idempotente ==
    execucoes >= 2 =>
      /\ df_divergente = anterior.df_divergente
      /\ df_igual = anterior.df_igual
      /\ Len(df_divergente.linhas) = Len(anterior.df_divergente.linhas)
      /\ Len(df_igual.linhas) = Len(anterior.df_igual.linhas)

\* The second application ran on frames the first one had changed, and
\* there is something reported in each set.
C9_Witness ==
    /\ execucoes >= 2
    /\ df_algar.linhas # EntradaAlgar
    /\ df_data.linhas # EntradaData
    /\ df_igual.linhas # <<>>
    /\ df_divergente.linhas # <<>>

(* ------------------------------- C10 ----------------------------------- *)
\* How many records of an outcome frame are reported under identifier k.
RelatadosDe(df, k) == Cardinality({i \in DOMAIN df.linhas : df.linhas[i].PROTOCOLO = k})

====
